---- MODULE Spec2Model ----
(***************************************************************************)
(* The incremental stream demultiplexer of getStreamingAIResponse          *)
(* (src/unnamed/part_000, lines 346-532).                                  *)
(*                                                                         *)
(* Text is a sequence of characters.  A character of the model is one      *)
(* character of the upstream stream, with one abbreviation: the member     *)
(* list of a JSON object ("tool_name":"search","additional_kwargs":{}) is  *)
(* written as a single member symbol, so the object text is "{", the       *)
(* symbol, "}".  The two tags are spelled out character by character, so   *)
(* a chunk boundary can fall inside a tag, between a tag and its body, or  *)
(* inside a body.  Offsets are 0-based as in the source.                   *)
(***************************************************************************)
EXTENDS Integers, Sequences, FiniteSets, TLC

\* ------------------------------------------------------------------ bounds

\* The largest number of frames of a generated upstream input.
MaxFrames == 3

\* ------------------------------------------------------- program constants

MESSAGE_TYPES == [TOOL |-> <<"T", "o", "o", "l", " ", ":">>,
                  TOLY |-> <<"T", "o", "l", "y", " ", ":">>]

IDENTIFIER_LENGTH == 6

\* JavaScript's Infinity: larger than every offset of a buffer.
Infinity == 1000000

\* JavaScript's undefined, as the value of a property an object lacks.
Undefined == "undefined"

\* ------------------------------------------------------------ text helpers

Min(S) == CHOOSE x \in S : \A y \in S : x <= y

\* String.prototype.indexOf(pat, from): the smallest 0-based offset >= from
\* at which pat occurs in buf, or -1.
IndexOf(buf, pat, from) ==
  LET lo == IF from < 0 THEN 0 ELSE from
      hits == {i \in lo..(Len(buf) - Len(pat)) :
                 \A k \in 1..Len(pat) : buf[i + k] = pat[k]}
  IN IF hits = {} THEN -1 ELSE Min(hits)

\* String.prototype.substring(a, b) for 0 <= a <= b <= length.
Substring(buf, a, b) == SubSeq(buf, a + 1, b)

\* String.prototype.substring(a): to the end of the text.
SubstringFrom(buf, a) == SubSeq(buf, a + 1, Len(buf))

\* The characters String.prototype.trim removes that occur in the model.
WhiteSpace == {" ", "\n"}

RECURSIVE TrimStart(_)
TrimStart(t) ==
  IF t # <<>> /\ Head(t) \in WhiteSpace THEN TrimStart(Tail(t)) ELSE t

RECURSIVE TrimEnd(_)
TrimEnd(t) ==
  IF t # <<>> /\ t[Len(t)] \in WhiteSpace
  THEN TrimEnd(SubSeq(t, 1, Len(t) - 1)) ELSE t

\* String.prototype.trim
Trim(t) == TrimEnd(TrimStart(t))

\* Bytes.  A byte below 0x80 is written as the character it encodes; "C3" and
\* "A9" are the lead and the continuation byte of the two-byte encoding of
\* U+00E9.
MultiByte == {"C3", "A9"}

\* The UTF-8 decoding of a byte sequence: a complete sequence gives its
\* character; a lead byte without its continuation, and a continuation byte
\* without a lead, each give U+FFFD.
RECURSIVE Utf8Decode(_)
Utf8Decode(bytes) ==
  IF bytes = <<>> THEN <<>>
  ELSE IF Head(bytes) = "C3" /\ Len(bytes) >= 2 /\ bytes[2] = "A9"
  THEN <<"U+00E9">> \o Utf8Decode(SubSeq(bytes, 3, Len(bytes)))
  ELSE IF Head(bytes) \in MultiByte
  THEN <<"U+FFFD">> \o Utf8Decode(Tail(bytes))
  ELSE <<Head(bytes)>> \o Utf8Decode(Tail(bytes))

\* chunk.toString('utf-8'): each chunk is decoded on its own.  Bytes below
\* 0x80 decode to themselves.
Utf8ToString(chunk) ==
  IF \A i \in 1..Len(chunk) : chunk[i] \notin MultiByte
  THEN chunk ELSE Utf8Decode(chunk)

\* ------------------------------------------------------------------- JSON

\* The decoded objects, by member symbol.  Each record holds the properties
\* the processors read: tool_name, JSON.stringify(additional_kwargs), event,
\* metadata?.langgraph_node, whether data is an object, data.chunk?.content.
NoObject == [tool_name |-> Undefined, additional_kwargs |-> Undefined,
             event |-> Undefined, langgraph_node |-> Undefined,
             hasData |-> FALSE, content |-> <<>>]

Members ==
  [s |-> [NoObject EXCEPT !.tool_name = "search", !.additional_kwargs = "{}"],
   w |-> [NoObject EXCEPT !.tool_name = "wallet", !.additional_kwargs = "{}"],
   h |-> [NoObject EXCEPT !.event = "on_chat_model_stream",
                          !.langgraph_node = "Toly", !.hasData = TRUE,
                          !.content = <<"H", "i">>],
   b |-> [NoObject EXCEPT !.event = "on_chat_model_stream",
                          !.langgraph_node = "Toly", !.hasData = TRUE,
                          !.content = <<"Y", "o">>],
   \* another node's token: decodes, does not pass the filter
   n |-> [NoObject EXCEPT !.event = "on_chat_model_stream",
                          !.langgraph_node = "Tools", !.hasData = TRUE,
                          !.content = <<"N", "o">>],
   \* passes the filter, data.chunk.content is the empty string
   z |-> [NoObject EXCEPT !.event = "on_chat_model_stream",
                          !.langgraph_node = "Toly", !.hasData = TRUE],
   \* passes the filter, has no data property
   d |-> [NoObject EXCEPT !.event = "on_chat_model_stream",
                          !.langgraph_node = "Toly"]]

\* The text of a tool notice whose additional_kwargs holds str as a string
\* value: "q" stands for {"tool_name":"search","additional_kwargs":{"q":" and
\* the closing "}" for "}}; the characters of str are spelled out between.
QuotingNotice(str) == <<"{", "q">> \o str \o <<"}">>

\* The object that text decodes to; its additional_kwargs, stringified, is
\* written as the pair of the key and the string value.
Quoting(str) ==
  [NoObject EXCEPT !.tool_name = "search", !.additional_kwargs = <<"q", str>>]

\* JSON.parse(text): leading and trailing JSON white space is skipped; what
\* is left must be one complete object.  A truncated object ("{", "s"), an
\* object followed by other text, or the empty text is a SyntaxError.
JSONParse(text) ==
  LET u == Trim(text)
  IN IF Len(u) = 3 /\ u[1] = "{" /\ u[3] = "}" /\ u[2] \in DOMAIN Members
     THEN [ok |-> TRUE, val |-> Members[u[2]]]
     ELSE IF u = <<"{", "}">>
     THEN [ok |-> TRUE, val |-> NoObject]
     ELSE IF u \in {QuotingNotice(tag) : tag \in {MESSAGE_TYPES.TOOL, MESSAGE_TYPES.TOLY}}
     THEN [ok |-> TRUE, val |-> Quoting(SubSeq(u, 3, Len(u) - 1))]
     ELSE [ok |-> FALSE, val |-> NoObject]

\* ------------------------------------------------------- scanner, extractor

\* The scan without the pos < nextPos test: the tag examined last wins.
findNextMessageStartLastWins(buf, currentPos) ==
  LET posTool == IndexOf(buf, MESSAGE_TYPES.TOOL, currentPos + IDENTIFIER_LENGTH)
      afterTool == IF posTool >= 0 THEN posTool ELSE Infinity
      posToly == IndexOf(buf, MESSAGE_TYPES.TOLY, currentPos + IDENTIFIER_LENGTH)
  IN IF posToly >= 0 THEN posToly ELSE afterTool

\* The scan started one position later, strictly after
\* currentPos + IDENTIFIER_LENGTH.
findNextMessageStartStrict(buf, currentPos) ==
  LET posTool == IndexOf(buf, MESSAGE_TYPES.TOOL, currentPos + IDENTIFIER_LENGTH + 1)
      afterTool == IF posTool >= 0 /\ posTool < Infinity THEN posTool ELSE Infinity
      posToly == IndexOf(buf, MESSAGE_TYPES.TOLY, currentPos + IDENTIFIER_LENGTH + 1)
  IN IF posToly >= 0 /\ posToly < afterTool THEN posToly ELSE afterTool

findNextMessageStart(buf, currentPos) ==
  LET posTool == IndexOf(buf, MESSAGE_TYPES.TOOL, currentPos + IDENTIFIER_LENGTH)
      afterTool == IF posTool >= 0 /\ posTool < Infinity THEN posTool ELSE Infinity
      posToly == IndexOf(buf, MESSAGE_TYPES.TOLY, currentPos + IDENTIFIER_LENGTH)
  IN IF posToly >= 0 /\ posToly < afterTool THEN posToly ELSE afterTool

extractMessageContent(buf, startPos) ==
  LET nextMsgStart == findNextMessageStart(buf, startPos)
  IN [content |-> IF nextMsgStart # Infinity
                  THEN Substring(buf, startPos + IDENTIFIER_LENGTH, nextMsgStart)
                  ELSE SubstringFrom(buf, startPos + IDENTIFIER_LENGTH),
      nextMsgStart |-> nextMsgStart]

\* ---------------------------------------------------------------- session

\* The closure state of one call of getStreamingAIResponse together with its
\* subscriber: emitted holds the values delivered by subscriber.next, signal
\* the terminal notification.  base and log are history: the input offset of
\* rawBuffer's first character, and the dispatches of the current pass.
InitialSession ==
  [rawBuffer |-> <<>>, streamedContent |-> <<>>, processedTools |-> {},
   emitted |-> <<>>, signal |-> "none", base |-> 0, log |-> <<>>]

\* subscriber.next delivering the value ahead of the earlier ones.
SubscriberNextFirst(s, value) ==
  IF s.signal = "none" THEN [s EXCEPT !.emitted = <<value>> \o @] ELSE s

\* subscriber.next(value): a stopped subscriber ignores it.
SubscriberNext(s, value) ==
  IF s.signal = "none" THEN [s EXCEPT !.emitted = Append(@, value)] ELSE s

\* subscriber.complete()
SubscriberComplete(s) ==
  IF s.signal = "none" THEN [s EXCEPT !.signal = "complete"] ELSE s

\* subscriber.error(error)
SubscriberError(s) ==
  IF s.signal = "none" THEN [s EXCEPT !.signal = "error"] ELSE s

ToolEvent(toolData) ==
  [type |-> "tool", payload |-> toolData, text |-> <<>>]

DeltaEvent(msgContent) ==
  [type |-> "delta", payload |-> NoObject, text |-> msgContent]

ContentEvent(completeContent) ==
  [type |-> "content", payload |-> NoObject, text |-> completeContent]

\* seq: for a dispatch that emitted, the place of its event in emitted.
Logged(s, kind, off, isEnd, outcome) ==
  [s EXCEPT !.log = Append(@, [kind |-> kind, off |-> off, isEnd |-> isEnd,
                               outcome |-> outcome,
                               seq |-> IF outcome = "emitted"
                                       THEN Len(s.emitted) ELSE 0])]

\* The dedup key `${tool_name}-${JSON.stringify(additional_kwargs)}`.
ToolKey(toolData) == <<toolData.tool_name, "-", toolData.additional_kwargs>>

\* processToolMessage without the processedTools.has test.
processToolMessageNoDedup(s, content, isEnd, off) ==
  LET parsed == JSONParse(Trim(content))
      toolData == parsed.val
      toolKey == ToolKey(toolData)
  IN IF parsed.ok
     THEN [s |-> Logged(SubscriberNext(
                   [s EXCEPT !.processedTools = @ \cup {toolKey}],
                   ToolEvent(toolData)), "tool", off, isEnd, "emitted"),
           processed |-> TRUE]
     ELSE IF isEnd
     THEN [s |-> Logged(s, "tool", off, isEnd, "dropped"), processed |-> TRUE]
     ELSE [s |-> Logged(s, "tool", off, isEnd, "deferred"), processed |-> FALSE]

\* processToolMessage whose catch returns true whether or not isEnd is set.
processToolMessageDropEarly(s, content, isEnd, off) ==
  LET parsed == JSONParse(Trim(content))
      toolData == parsed.val
      toolKey == ToolKey(toolData)
  IN IF parsed.ok
     THEN IF toolKey \notin s.processedTools
          THEN [s |-> Logged(SubscriberNext(
                        [s EXCEPT !.processedTools = @ \cup {toolKey}],
                        ToolEvent(toolData)), "tool", off, isEnd, "emitted"),
                processed |-> TRUE]
          ELSE [s |-> Logged(s, "tool", off, isEnd, "duplicate"),
                processed |-> TRUE]
     ELSE [s |-> Logged(s, "tool", off, isEnd, "dropped"), processed |-> TRUE]

\* off: the input offset of the frame's tag (history only).
processToolMessage(s, content, isEnd, off) ==
  LET parsed == JSONParse(Trim(content))
      toolData == parsed.val
      toolKey == ToolKey(toolData)
  IN IF parsed.ok
     THEN IF toolKey \notin s.processedTools
          THEN [s |-> Logged(SubscriberNext(
                        [s EXCEPT !.processedTools = @ \cup {toolKey}],
                        ToolEvent(toolData)), "tool", off, isEnd, "emitted"),
                processed |-> TRUE]
          ELSE [s |-> Logged(s, "tool", off, isEnd, "duplicate"),
                processed |-> TRUE]
     ELSE IF isEnd
     THEN [s |-> Logged(s, "tool", off, isEnd, "dropped"), processed |-> TRUE]
     ELSE [s |-> Logged(s, "tool", off, isEnd, "deferred"), processed |-> FALSE]

\* processTolyMessage with streamedContent = msgContent in place of +=.
processTolyMessageAssign(s, content, isEnd, off) ==
  LET parsed == JSONParse(content)
      parsedData == parsed.val
      matches == /\ parsedData.event = "on_chat_model_stream"
                 /\ parsedData.langgraph_node = "Toly"
      throws == ~parsed.ok \/ (matches /\ ~parsedData.hasData)
      msgContent == parsedData.content
  IN IF ~throws
     THEN IF matches /\ msgContent # <<>>
          THEN [s |-> Logged(SubscriberNext(
                        [s EXCEPT !.streamedContent = msgContent],
                        DeltaEvent(msgContent)), "toly", off, isEnd, "emitted"),
                processed |-> TRUE]
          ELSE [s |-> Logged(s, "toly", off, isEnd, "filtered"),
                processed |-> TRUE]
     ELSE IF isEnd
     THEN [s |-> Logged(s, "toly", off, isEnd, "dropped"), processed |-> TRUE]
     ELSE [s |-> Logged(s, "toly", off, isEnd, "deferred"), processed |-> FALSE]

\* processTolyMessage that reports a body it cannot decode at the end of the
\* stream to the subscriber as an error.
processTolyMessageStrict(s, content, isEnd, off) ==
  LET parsed == JSONParse(content)
      parsedData == parsed.val
      matches == /\ parsedData.event = "on_chat_model_stream"
                 /\ parsedData.langgraph_node = "Toly"
      throws == ~parsed.ok \/ (matches /\ ~parsedData.hasData)
      msgContent == parsedData.content
  IN IF ~throws
     THEN IF matches /\ msgContent # <<>>
          THEN [s |-> Logged(SubscriberNext(
                        [s EXCEPT !.streamedContent = @ \o msgContent],
                        DeltaEvent(msgContent)), "toly", off, isEnd, "emitted"),
                processed |-> TRUE]
          ELSE [s |-> Logged(s, "toly", off, isEnd, "filtered"),
                processed |-> TRUE]
     ELSE IF isEnd
     THEN [s |-> Logged(SubscriberError(s), "toly", off, isEnd, "dropped"),
           processed |-> TRUE]
     ELSE [s |-> Logged(s, "toly", off, isEnd, "deferred"), processed |-> FALSE]

\* processTolyMessage with streamedContent = msgContent + streamedContent.
processTolyMessagePrepend(s, content, isEnd, off) ==
  LET parsed == JSONParse(content)
      parsedData == parsed.val
      matches == /\ parsedData.event = "on_chat_model_stream"
                 /\ parsedData.langgraph_node = "Toly"
      throws == ~parsed.ok \/ (matches /\ ~parsedData.hasData)
      msgContent == parsedData.content
  IN IF ~throws
     THEN IF matches /\ msgContent # <<>>
          THEN [s |-> Logged(SubscriberNext(
                        [s EXCEPT !.streamedContent = msgContent \o @],
                        DeltaEvent(msgContent)), "toly", off, isEnd, "emitted"),
                processed |-> TRUE]
          ELSE [s |-> Logged(s, "toly", off, isEnd, "filtered"),
                processed |-> TRUE]
     ELSE IF isEnd
     THEN [s |-> Logged(s, "toly", off, isEnd, "dropped"), processed |-> TRUE]
     ELSE [s |-> Logged(s, "toly", off, isEnd, "deferred"), processed |-> FALSE]

\* processTolyMessage without the metadata?.langgraph_node === 'Toly' test.
processTolyMessageAnyNode(s, content, isEnd, off) ==
  LET parsed == JSONParse(content)
      parsedData == parsed.val
      matches == parsedData.event = "on_chat_model_stream"
      throws == ~parsed.ok \/ (matches /\ ~parsedData.hasData)
      msgContent == parsedData.content
  IN IF ~throws
     THEN IF matches /\ msgContent # <<>>
          THEN [s |-> Logged(SubscriberNext(
                        [s EXCEPT !.streamedContent = @ \o msgContent],
                        DeltaEvent(msgContent)), "toly", off, isEnd, "emitted"),
                processed |-> TRUE]
          ELSE [s |-> Logged(s, "toly", off, isEnd, "filtered"),
                processed |-> TRUE]
     ELSE IF isEnd
     THEN [s |-> Logged(s, "toly", off, isEnd, "dropped"), processed |-> TRUE]
     ELSE [s |-> Logged(s, "toly", off, isEnd, "deferred"), processed |-> FALSE]

processTolyMessage(s, content, isEnd, off) ==
  LET parsed == JSONParse(content)
      parsedData == parsed.val
      matches == /\ parsedData.event = "on_chat_model_stream"
                 /\ parsedData.langgraph_node = "Toly"
      \* parsedData.data.chunk?.content throws when data is undefined
      throws == ~parsed.ok \/ (matches /\ ~parsedData.hasData)
      msgContent == parsedData.content
  IN IF ~throws
     THEN IF matches /\ msgContent # <<>>
          THEN [s |-> Logged(SubscriberNext(
                        [s EXCEPT !.streamedContent = @ \o msgContent],
                        DeltaEvent(msgContent)), "toly", off, isEnd, "emitted"),
                processed |-> TRUE]
          ELSE [s |-> Logged(s, "toly", off, isEnd, "filtered"),
                processed |-> TRUE]
     ELSE IF isEnd
     THEN [s |-> Logged(s, "toly", off, isEnd, "dropped"), processed |-> TRUE]
     ELSE [s |-> Logged(s, "toly", off, isEnd, "deferred"), processed |-> FALSE]

\* The processor argument of processMessages, chosen by the identifier as the
\* two calls in processBufferedData pair them.
Processor(identifier, s, content, isEnd, off) ==
  IF identifier = MESSAGE_TYPES.TOOL
  THEN processToolMessage(s, content, isEnd, off)
  ELSE processTolyMessage(s, content, isEnd, off)

\* rawBuffer = nextMsgStart !== Infinity ? rawBuffer.substring(nextMsgStart) : ''
Consume(s, nextMsgStart) ==
  IF nextMsgStart # Infinity
  THEN [s EXCEPT !.rawBuffer = SubstringFrom(s.rawBuffer, nextMsgStart),
                 !.base = @ + nextMsgStart]
  ELSE [s EXCEPT !.rawBuffer = <<>>, !.base = @ + Len(s.rawBuffer)]

\* processMessages that cuts a frame it could not process off the buffer and
\* goes on, whether or not isEnd is set.
RECURSIVE processMessagesSkipFailed(_, _, _)
processMessagesSkipFailed(s, identifier, isEnd) ==
  LET msgStart == IndexOf(s.rawBuffer, identifier, 0)
      ex == extractMessageContent(s.rawBuffer, msgStart)
      r == Processor(identifier, s, ex.content, isEnd, s.base + msgStart)
  IN IF msgStart = -1 THEN s
     ELSE IF ex.nextMsgStart = Infinity /\ ~isEnd THEN s
     ELSE processMessagesSkipFailed(Consume(r.s, ex.nextMsgStart), identifier, isEnd)

\* processMessages without the wait for a complete frame (lines 450-452).
RECURSIVE processMessagesEager(_, _, _)
processMessagesEager(s, identifier, isEnd) ==
  LET msgStart == IndexOf(s.rawBuffer, identifier, 0)
      ex == extractMessageContent(s.rawBuffer, msgStart)
      r == Processor(identifier, s, ex.content, isEnd, s.base + msgStart)
  IN IF msgStart = -1 THEN s
     ELSE IF r.processed
     THEN processMessagesEager(Consume(r.s, ex.nextMsgStart), identifier, isEnd)
     ELSE IF ~isEnd THEN r.s
     ELSE processMessagesEager(Consume(r.s, ex.nextMsgStart), identifier, isEnd)

RECURSIVE processMessages(_, _, _)
processMessages(s, identifier, isEnd) ==
  LET msgStart == IndexOf(s.rawBuffer, identifier, 0)
      ex == extractMessageContent(s.rawBuffer, msgStart)
      r == Processor(identifier, s, ex.content, isEnd, s.base + msgStart)
  IN IF msgStart = -1 THEN s
     ELSE IF ex.nextMsgStart = Infinity /\ ~isEnd THEN s
     ELSE IF r.processed
     THEN processMessages(Consume(r.s, ex.nextMsgStart), identifier, isEnd)
     ELSE IF ~isEnd THEN r.s
     ELSE processMessages(Consume(r.s, ex.nextMsgStart), identifier, isEnd)

\* One iteration of the loop of processMessages whose search for the next tag
\* starts at msgStart itself.
processMessagesStepNoSkip(s, identifier, isEnd) ==
  LET msgStart == IndexOf(s.rawBuffer, identifier, 0)
      ex == extractMessageContent(s.rawBuffer, msgStart - IDENTIFIER_LENGTH)
      r == Processor(identifier, s, ex.content, isEnd, s.base + msgStart)
  IN IF msgStart = -1 THEN [s |-> s, again |-> FALSE]
     ELSE IF ex.nextMsgStart = Infinity /\ ~isEnd THEN [s |-> s, again |-> FALSE]
     ELSE IF r.processed
     THEN [s |-> Consume(r.s, ex.nextMsgStart), again |-> TRUE]
     ELSE IF ~isEnd THEN [s |-> r.s, again |-> FALSE]
     ELSE [s |-> Consume(r.s, ex.nextMsgStart), again |-> TRUE]

\* One iteration of the while (true) loop of processMessages: the session
\* after it, and whether the loop goes on (again) or was left by a break.
processMessagesStep(s, identifier, isEnd) ==
  LET msgStart == IndexOf(s.rawBuffer, identifier, 0)
      ex == extractMessageContent(s.rawBuffer, msgStart)
      r == Processor(identifier, s, ex.content, isEnd, s.base + msgStart)
  IN IF msgStart = -1 THEN [s |-> s, again |-> FALSE]
     ELSE IF ex.nextMsgStart = Infinity /\ ~isEnd THEN [s |-> s, again |-> FALSE]
     ELSE IF r.processed
     THEN [s |-> Consume(r.s, ex.nextMsgStart), again |-> TRUE]
     ELSE IF ~isEnd THEN [s |-> r.s, again |-> FALSE]
     ELSE [s |-> Consume(r.s, ex.nextMsgStart), again |-> TRUE]

\* The loop run for at most fuel iterations: the session reached, whether a
\* break was reached (done), and whether every iteration that went on left
\* the buffer strictly shorter (shrank).
RECURSIVE Iterations(_, _, _, _)
Iterations(s, identifier, isEnd, fuel) ==
  LET st == processMessagesStep(s, identifier, isEnd)
      rest == Iterations(st.s, identifier, isEnd, fuel - 1)
  IN IF fuel = 0 THEN [s |-> s, done |-> FALSE, shrank |-> TRUE]
     ELSE IF ~st.again THEN [s |-> st.s, done |-> TRUE, shrank |-> TRUE]
     ELSE [rest EXCEPT !.shrank = @ /\ Len(st.s.rawBuffer) < Len(s.rawBuffer)]

\* processBufferedData with the two passes in the other order.
processBufferedDataTolyFirst(s, isEnd) ==
  processMessages(processMessages(s, MESSAGE_TYPES.TOLY, isEnd),
                  MESSAGE_TYPES.TOOL, isEnd)

processBufferedData(s, isEnd) ==
  processMessages(processMessages(s, MESSAGE_TYPES.TOOL, isEnd),
                  MESSAGE_TYPES.TOLY, isEnd)

\* on('data') whose pass works on a copy: the events, the dedup set and the
\* transcript are kept, the cuts of rawBuffer are not.
OnDataKeepBuffer(s, text) ==
  LET appended == [s EXCEPT !.rawBuffer = @ \o text, !.log = <<>>]
  IN [processBufferedData(appended, FALSE)
        EXCEPT !.rawBuffer = appended.rawBuffer, !.base = appended.base]

\* response.data.on('data', chunk): text is the decoded chunk.
OnData(s, text) ==
  processBufferedData([s EXCEPT !.rawBuffer = @ \o text, !.log = <<>>], FALSE)

\* on('end') calling processBufferedData() without isEnd = true.
OnEndNotFinal(s) ==
  LET d == processBufferedData([s EXCEPT !.log = <<>>], FALSE)
  IN SubscriberComplete(SubscriberNext(d, ContentEvent(d.streamedContent)))

\* on('end') that, after the final pass, hands text left in the buffer
\* without a tag to the Model processor.
OnEndFlushRemainder(s) ==
  LET d == processBufferedData([s EXCEPT !.log = <<>>], TRUE)
      f == IF d.rawBuffer # <<>>
           THEN processTolyMessage(d, d.rawBuffer, TRUE, d.base).s ELSE d
  IN SubscriberComplete(SubscriberNext(f, ContentEvent(f.streamedContent)))

\* on('end') calling subscriber.complete() before it sends the content event.
OnEndCompleteFirst(s) ==
  LET d == processBufferedData([s EXCEPT !.log = <<>>], TRUE)
  IN SubscriberNext(SubscriberComplete(d), ContentEvent(d.streamedContent))

\* response.data.on('end')
OnEnd(s) ==
  LET d == processBufferedData([s EXCEPT !.log = <<>>], TRUE)
  IN SubscriberComplete(SubscriberNext(d, ContentEvent(d.streamedContent)))

\* on('error') that reports the content collected so far before the error.
OnErrorWithContent(s) ==
  SubscriberError(SubscriberNext([s EXCEPT !.log = <<>>],
                                 ContentEvent(s.streamedContent)))

\* on('error') that only logs the error.
OnErrorLogOnly(s) == [s EXCEPT !.log = <<>>]

\* on('error') that flushes the buffered frames before it signals the error.
OnErrorFlush(s) ==
  SubscriberError(processBufferedData([s EXCEPT !.log = <<>>], TRUE))

\* response.data.on('error') and the request's .catch
OnError(s) == SubscriberError([s EXCEPT !.log = <<>>])

\* The consumer unsubscribes: the subscriber is closed and the teardown the
\* Observable callback returned runs, which only writes a log line.
OnUnsubscribe(s) ==
  IF s.signal = "none" THEN [s EXCEPT !.signal = "detached", !.log = <<>>] ELSE s

\* ------------------------------------------------------ the upstream inputs

ToolBodies == {<<"{", "s", "}">>, <<"{", "w", "}">>, <<"{", "s">>}

TolyBodies == {<<"{", "h", "}">>, <<"{", "b", "}">>, <<"{", "h">>}

\* One frame of the upstream stream: a tag and the body that follows it.
FrameTexts ==
  {MESSAGE_TYPES.TOOL \o body : body \in ToolBodies}
    \cup {MESSAGE_TYPES.TOLY \o body : body \in TolyBodies}

RECURSIVE InputsOfFrames(_)
InputsOfFrames(n) ==
  IF n = 0 THEN {<<>>}
  ELSE {f \o rest : f \in FrameTexts, rest \in InputsOfFrames(n - 1)}

\* The spec's example: a tool notice, then a model frame with delta "Hi".
ExampleInput ==
  MESSAGE_TYPES.TOOL \o <<"{", "s", "}">> \o MESSAGE_TYPES.TOLY \o <<"{", "h", "}">>

\* An undecodable tool notice, the same notice twice, two model frames.
RepeatedNoticeInput ==
  MESSAGE_TYPES.TOOL \o <<"{", "s">> \o MESSAGE_TYPES.TOOL \o <<"{", "s", "}">>
    \o MESSAGE_TYPES.TOOL \o <<"{", "s", "}">>
    \o MESSAGE_TYPES.TOLY \o <<"{", "h", "}">> \o MESSAGE_TYPES.TOLY \o <<"{", "b", "}">>

Inputs ==
  UNION {InputsOfFrames(n) : n \in 1..MaxFrames} \cup {ExampleInput, RepeatedNoticeInput}

\* Inputs with untagged text in front, bodies that are empty, that decode to
\* objects the processors do not act on, or that decode and make the Model
\* processor throw; also inputs without any tag.
MaxVaried == 2

VariedToolBodies == {<<"{", "s", "}">>, <<"{", "}">>, <<"{", "s">>, <<>>}

VariedTolyBodies ==
  {<<"{", "h", "}">>, <<"{", "n", "}">>, <<"{", "z", "}">>, <<"{", "d", "}">>, <<>>}

VariedFrameTexts ==
  {MESSAGE_TYPES.TOOL \o body : body \in VariedToolBodies}
    \cup {MESSAGE_TYPES.TOLY \o body : body \in VariedTolyBodies}

RECURSIVE VariedInputsOfFrames(_)
VariedInputsOfFrames(n) ==
  IF n = 0 THEN {<<>>}
  ELSE {f \o rest : f \in VariedFrameTexts, rest \in VariedInputsOfFrames(n - 1)}

Untagged == {<<>>, <<"x">>, <<"{", "h", "}">>}

VariedInputs ==
  {junk \o frames : junk \in Untagged,
                    frames \in UNION {VariedInputsOfFrames(n) : n \in 0..MaxVaried}}
    \ {<<>>}

\* Inputs with tool notices that quote a tag literal inside a string value.
MaxEmbedded == 2

EmbeddedFrameTexts ==
  {MESSAGE_TYPES.TOOL \o QuotingNotice(MESSAGE_TYPES.TOLY),
   MESSAGE_TYPES.TOOL \o QuotingNotice(MESSAGE_TYPES.TOOL),
   MESSAGE_TYPES.TOOL \o <<"{", "w", "}">>,
   MESSAGE_TYPES.TOLY \o <<"{", "h", "}">>}

RECURSIVE EmbeddedInputsOfFrames(_)
EmbeddedInputsOfFrames(n) ==
  IF n = 0 THEN {<<>>}
  ELSE {f \o rest : f \in EmbeddedFrameTexts, rest \in EmbeddedInputsOfFrames(n - 1)}

EmbeddedInputs == UNION {EmbeddedInputsOfFrames(n) : n \in 1..MaxEmbedded}

\* Inputs of untagged text with a two-byte character, as bytes.
MaxChars == 3

EncodedChars == {<<"a">>, <<"C3", "A9">>}

RECURSIVE ByteInputsOfChars(_)
ByteInputsOfChars(n) ==
  IF n = 0 THEN {<<>>}
  ELSE {c \o rest : c \in EncodedChars, rest \in ByteInputsOfChars(n - 1)}

ByteInputs == UNION {ByteInputsOfChars(n) : n \in 1..MaxChars}

\* ------------------------------------------------------------ state machine

VARIABLES
  input,            \* the complete text the upstream would send
  delivered,        \* how many characters of input have arrived in chunks
  upstream,         \* pending | streaming | ended | errored | failed
  rawBuffer,
  streamedContent,
  processedTools,
  emitted,          \* the values the subscriber received through next()
  signal,           \* none | complete | error | detached
  base,             \* history: input offset of rawBuffer's first character
  passLog,          \* history: the dispatches of the latest handler call
  history,          \* history: every dispatch so far (kind, offset, outcome)
  peer              \* a second call of getStreamingAIResponse, if any

vars == <<input, delivered, upstream, rawBuffer, streamedContent,
          processedTools, emitted, signal, base, passLog, history, peer>>

\* No second call: the value of peer in a single-session run.
NoPeer ==
  [input |-> <<>>, delivered |-> 0, upstream |-> "idle",
   sess |-> InitialSession, cuts |-> <<>>]

\* Handlers that share one processedTools set between the calls, as they
\* would if the set were a field of the service.
ClosureStateSharedTools(own, other) ==
  [own EXCEPT !.processedTools = @ \cup other.processedTools]

\* The state a session's handlers work on: the variables declared inside
\* its own Observable callback, none of another call's.
ClosureState(own, other) == own

Session ==
  [rawBuffer |-> rawBuffer, streamedContent |-> streamedContent,
   processedTools |-> processedTools, emitted |-> emitted, signal |-> signal,
   base |-> base, log |-> passLog]

Becomes(s) ==
  /\ rawBuffer' = s.rawBuffer
  /\ streamedContent' = s.streamedContent
  /\ processedTools' = s.processedTools
  /\ emitted' = s.emitted
  /\ signal' = s.signal
  /\ base' = s.base
  /\ passLog' = s.log
  /\ history' = history \cup {s.log[i] : i \in 1..Len(s.log)}

Start(inputs) ==
  /\ input \in inputs
  /\ delivered = 0
  /\ upstream = "pending"
  /\ rawBuffer = InitialSession.rawBuffer
  /\ streamedContent = InitialSession.streamedContent
  /\ processedTools = InitialSession.processedTools
  /\ emitted = InitialSession.emitted
  /\ signal = InitialSession.signal
  /\ base = 0
  /\ passLog = <<>>
  /\ history = {}

Init == Start(Inputs) /\ peer = NoPeer

\* The request's promise resolves and the three handlers are registered.
Respond ==
  /\ upstream = "pending"
  /\ upstream' = "streaming"
  /\ UNCHANGED <<input, delivered, rawBuffer, streamedContent, processedTools,
                 emitted, signal, base, passLog, history, peer>>

\* The request's promise rejects: the .catch handler.
RequestError ==
  /\ upstream = "pending"
  /\ upstream' = "failed"
  /\ Becomes(OnError(ClosureState(Session, peer.sess)))
  /\ UNCHANGED <<input, delivered, peer>>

\* A 'data' event: the next non-empty chunk of the input's bytes, of any
\* length, decoded and handed to the handler.
Data ==
  /\ upstream = "streaming"
  /\ \E n \in 1..(Len(input) - delivered) :
       /\ delivered' = delivered + n
       /\ Becomes(OnData(ClosureState(Session, peer.sess),
                         Utf8ToString(SubSeq(input, delivered + 1,
                                             delivered + n))))
  /\ UNCHANGED <<input, upstream, peer>>

\* The 'end' event, once the whole input has arrived.
End ==
  /\ upstream = "streaming"
  /\ delivered = Len(input)
  /\ upstream' = "ended"
  /\ Becomes(OnEnd(ClosureState(Session, peer.sess)))
  /\ UNCHANGED <<input, delivered, peer>>

\* An 'error' event of the upstream stream, at any point before its end.
Error ==
  /\ upstream = "streaming"
  /\ upstream' = "errored"
  /\ Becomes(OnError(ClosureState(Session, peer.sess)))
  /\ UNCHANGED <<input, delivered, peer>>

Next == Respond \/ RequestError \/ Data \/ End \/ Error

Spec == Init /\ [][Next]_vars

\* The downstream consumer detaches while the request is pending or the
\* stream is open.  The request is not aborted: its handlers stay registered.
Unsubscribe ==
  /\ upstream \in {"pending", "streaming"}
  /\ signal = "none"
  /\ Becomes(OnUnsubscribe(ClosureState(Session, peer.sess)))
  /\ UNCHANGED <<input, delivered, upstream, peer>>

NextCancel == Next \/ Unsubscribe

SpecCancel == Init /\ [][NextCancel]_vars

\* Two calls of getStreamingAIResponse at once.  The second call's chunk
\* lengths are recorded in peer.cuts; it receives at most MaxPeerChunks chunks.
MaxPeerChunks == 2

PairInputs ==
  {ExampleInput,
   MESSAGE_TYPES.TOLY \o <<"{", "h", "}">> \o MESSAGE_TYPES.TOOL \o <<"{", "s", "}">>}

InitPair ==
  /\ Start(PairInputs)
  /\ \E text \in PairInputs : peer = [NoPeer EXCEPT !.input = text, !.upstream = "pending"]

PeerRespond ==
  /\ peer.upstream = "pending"
  /\ peer' = [peer EXCEPT !.upstream = "streaming"]
  /\ UNCHANGED <<input, delivered, upstream, rawBuffer, streamedContent,
                 processedTools, emitted, signal, base, passLog, history>>

PeerData ==
  /\ peer.upstream = "streaming"
  /\ Len(peer.cuts) < MaxPeerChunks
  /\ \E n \in 1..(Len(peer.input) - peer.delivered) :
       peer' = [peer EXCEPT
                  !.delivered = @ + n,
                  !.cuts = Append(@, n),
                  !.sess = OnData(ClosureState(peer.sess, Session),
                                  Utf8ToString(SubSeq(peer.input,
                                                      peer.delivered + 1,
                                                      peer.delivered + n)))]
  /\ UNCHANGED <<input, delivered, upstream, rawBuffer, streamedContent,
                 processedTools, emitted, signal, base, passLog, history>>

PeerEnd ==
  /\ peer.upstream = "streaming"
  /\ peer.delivered = Len(peer.input)
  /\ peer' = [peer EXCEPT !.upstream = "ended",
                          !.sess = OnEnd(ClosureState(peer.sess, Session))]
  /\ UNCHANGED <<input, delivered, upstream, rawBuffer, streamedContent,
                 processedTools, emitted, signal, base, passLog, history>>

PeerError ==
  /\ peer.upstream = "streaming"
  /\ peer' = [peer EXCEPT !.upstream = "errored",
                          !.sess = OnError(ClosureState(peer.sess, Session))]
  /\ UNCHANGED <<input, delivered, upstream, rawBuffer, streamedContent,
                 processedTools, emitted, signal, base, passLog, history>>

NextPair == Next \/ PeerRespond \/ PeerData \/ PeerEnd \/ PeerError

SpecPair == InitPair /\ [][NextPair]_vars

\* The same session over the varied inputs.
InitVaried == Start(VariedInputs) /\ peer = NoPeer

SpecVaried == InitVaried /\ [][Next]_vars

InitEmbedded == Start(EmbeddedInputs) /\ peer = NoPeer

SpecEmbedded == InitEmbedded /\ [][Next]_vars

InitBytes == Start(ByteInputs) /\ peer = NoPeer

SpecBytes == InitBytes /\ [][Next]_vars

\* ------------------------------------------------------------------ claims

\* The events of the run that feeds the whole input as one chunk and then
\* signals end-of-stream.
WholeRun(text) == OnEnd(OnData(InitialSession, text)).emitted

\* C1: Fragmentation invariance: whatever the chunking, a session that has
\* ended emitted exactly the event sequence of the single-chunk run.
FragmentationInvariance ==
  upstream = "ended" => emitted = WholeRun(input)

\* The offsets of the input at which a tag occurs.
TagOffsets(text) ==
  {o \in 0..(Len(text) - IDENTIFIER_LENGTH) :
     \E id \in {MESSAGE_TYPES.TOOL, MESSAGE_TYPES.TOLY} :
       \A k \in 1..IDENTIFIER_LENGTH : text[o + k] = id[k]}

TagAt(text, o) == SubSeq(text, o + 1, o + IDENTIFIER_LENGTH)

\* The body of the input's frame at tag offset o: the text between its tag
\* and the next tag, or the end of the stream.
FrameBody(text, o) ==
  LET later == {n \in TagOffsets(text) : n >= o + IDENTIFIER_LENGTH}
  IN SubSeq(text, o + IDENTIFIER_LENGTH + 1,
            IF later = {} THEN Len(text) ELSE Min(later))

\* A Model frame whose body decodes, passes the event-kind and node filter
\* and carries a non-empty delta.
Speaks(text, o) ==
  LET parsed == JSONParse(FrameBody(text, o))
  IN /\ TagAt(text, o) = MESSAGE_TYPES.TOLY
     /\ parsed.ok
     /\ parsed.val.event = "on_chat_model_stream"
     /\ parsed.val.langgraph_node = "Toly"
     /\ parsed.val.hasData
     /\ parsed.val.content # <<>>

\* C2: No dropped output: when the session has completed, every such Model
\* frame of the input has produced a content-delta event.
NoDroppedOutput ==
  upstream = "ended" =>
    \A o \in TagOffsets(input) :
      Speaks(input, o) =>
        \E d \in history : d.kind = "toly" /\ d.off = o /\ d.outcome = "emitted"

ToolEventsWithKey(key) ==
  {i \in 1..Len(emitted) :
     emitted[i].type = "tool" /\ ToolKey(emitted[i].payload) = key}

\* C3: Dedup at-most-once: in every state of a session, no dedup key is
\* carried by more than one emitted tool event.
DedupAtMostOnce ==
  \A i \in 1..Len(emitted) :
    emitted[i].type = "tool" =>
      Cardinality(ToolEventsWithKey(ToolKey(emitted[i].payload))) = 1

\* A second notice with an already emitted key was dispatched and suppressed.
DedupAtMostOnceWitness ==
  /\ \E d \in history : d.kind = "tool" /\ d.outcome = "duplicate"
  /\ \E i \in 1..Len(emitted) : emitted[i].type = "tool"

\* The Tool frames of the input whose trimmed body decodes to a notice with
\* dedup key `key`.
NoticesWithKey(text, key) ==
  {o \in TagOffsets(text) :
     /\ TagAt(text, o) = MESSAGE_TYPES.TOOL
     /\ JSONParse(Trim(FrameBody(text, o))).ok
     /\ ToolKey(JSONParse(Trim(FrameBody(text, o))).val) = key}

NoticeKeys == {ToolKey(Members[m]) : m \in {"s", "w"}}

\* C4: Dedup idempotence: when the input holds the same decodable tool notice
\* in two (or more) Tool frames, a completed session has emitted exactly one
\* tool event for it.
DedupIdempotence ==
  upstream = "ended" =>
    \A key \in NoticeKeys :
      Cardinality(NoticesWithKey(input, key)) >= 2 =>
        Cardinality(ToolEventsWithKey(key)) = 1

\* The texts of the content-delta events of an event sequence, concatenated
\* in emission order.
RECURSIVE DeltaText(_)
DeltaText(events) ==
  IF events = <<>> THEN <<>>
  ELSE (IF Head(events).type = "delta" THEN Head(events).text ELSE <<>>)
         \o DeltaText(Tail(events))

DeltaCount == Cardinality({i \in 1..Len(emitted) : emitted[i].type = "delta"})

\* C5: Transcript accumulation: a successfully completed session ends with
\* the content-complete event, whose text is the concatenation of the texts
\* of the content-delta events in emission order.
TranscriptAccumulation ==
  upstream = "ended" =>
    /\ emitted # <<>>
    /\ emitted[Len(emitted)].type = "content"
    /\ emitted[Len(emitted)].text = DeltaText(emitted)

\* A completed session that emitted two deltas with different texts.
TranscriptAccumulationWitness ==
  /\ upstream = "ended"
  /\ DeltaCount >= 2
  /\ emitted[Len(emitted)].text = <<"H", "i", "Y", "o">>

\* The events one handler call added to the sink.
NewEvents == SubSeq(emitted', Len(emitted) + 1, Len(emitted'))

ToolsBeforeDeltas(events) ==
  \A i, j \in 1..Len(events) :
    (events[i].type = "delta" /\ events[j].type = "tool") => j < i

\* C6: Priority ordering: among the events of one drain pass (one feed or
\* the final flush), every tool event comes before every content-delta.
PriorityOrdering == [][ToolsBeforeDeltas(NewEvents)]_vars

\* The latest pass emitted a tool event and a content-delta.
PriorityOrderingWitness ==
  /\ \E i \in 1..Len(passLog) :
       passLog[i].kind = "tool" /\ passLog[i].outcome = "emitted"
  /\ \E i \in 1..Len(passLog) :
       passLog[i].kind = "toly" /\ passLog[i].outcome = "emitted"

\* C7: Lenient flush: once end-of-stream has been signalled the session is
\* Completed whatever the buffer held: the final pass has dispatched every
\* frame once, deferred none, left no tag in the buffer, and the
\* content-complete event and the completion signal were delivered.
LenientFlush ==
  upstream = "ended" =>
    /\ signal = "complete"
    /\ emitted # <<>> /\ emitted[Len(emitted)].type = "content"
    /\ TagOffsets(rawBuffer) = {}
    /\ \A i \in 1..Len(passLog) :
         passLog[i].isEnd /\ passLog[i].outcome # "deferred"
    /\ \A i, j \in 1..Len(passLog) : passLog[i].off = passLog[j].off => i = j

\* The stream ended on a frame with a tag, an undecodable body and no
\* closing tag, and the final pass dropped that frame.
LenientFlushWitness ==
  /\ upstream = "ended"
  /\ ~JSONParse(FrameBody(input, CHOOSE o \in TagOffsets(input) :
                                   \A n \in TagOffsets(input) : n <= o)).ok
  /\ \E i \in 1..Len(passLog) :
       /\ passLog[i].outcome = "dropped"
       /\ \A n \in TagOffsets(input) : n <= passLog[i].off

ContentEvents == {i \in 1..Len(emitted) : emitted[i].type = "content"}

SessionOver == upstream \in {"ended", "errored", "failed"}

\* C8: Exactly one terminal event: a session that is over delivered either
\* the content-complete event (with the completion signal) or the error
\* signal, never both; a running session delivered neither; and no event
\* follows the content-complete event.
ExactlyOneTerminal ==
  /\ Cardinality(ContentEvents) <= 1
  /\ ContentEvents \subseteq {Len(emitted)}
  /\ SessionOver =>
       \/ Cardinality(ContentEvents) = 1 /\ signal = "complete"
       \/ ContentEvents = {} /\ signal = "error"
  /\ ~SessionOver => ContentEvents = {} /\ signal = "none"
  /\ upstream = "ended" <=> signal = "complete"

\* The upstream failed after tool and content-delta events were delivered.
ExactlyOneTerminalWitness ==
  /\ upstream = "errored"
  /\ signal = "error"
  /\ \E i \in 1..Len(emitted) : emitted[i].type = "tool"
  /\ \E i \in 1..Len(emitted) : emitted[i].type = "delta"

\* The offset just past the body of the input's frame at tag offset o.
FrameEnd(text, o) == o + IDENTIFIER_LENGTH + Len(FrameBody(text, o))

ExampleEvents ==
  <<ToolEvent(Members["s"]), DeltaEvent(<<"H", "i">>), ContentEvent(<<"H", "i">>)>>

DeferredFrameKept ==
  upstream = "streaming" =>
    \A d \in history :
      d.outcome = "deferred" =>
        /\ base <= d.off
        /\ SubSeq(rawBuffer, d.off - base + 1, FrameEnd(input, d.off) - base)
             = SubSeq(input, d.off + 1, FrameEnd(input, d.off))

\* C11: Decode anomalies are never surfaced as errors: the sink gets the
\* error signal only when the request or the upstream stream failed, and a
\* stream that ended completes with the transcript accumulated so far,
\* whatever bodies failed to decode on the way.
DecodeNeverErrors ==
  /\ signal = "error" => upstream \in {"errored", "failed"}
  /\ upstream = "ended" =>
       /\ signal = "complete"
       /\ emitted # <<>>
       /\ emitted[Len(emitted)] = ContentEvent(streamedContent)

\* A completed session in which a body failed to decode mid-stream, a body
\* failed at end-of-stream, and a delta had been accumulated.
DecodeNeverErrorsWitness ==
  /\ upstream = "ended" /\ signal = "complete"
  /\ \E x \in history : x.outcome = "deferred"
  /\ \E x \in history : x.outcome = "dropped" /\ x.kind = "toly"
  /\ streamedContent # <<>>

\* C12: Transport failure is fatal: in the state right after the request
\* failed or the stream reported an error, whatever had been buffered or
\* emitted before, the sink holds the error signal and no content-complete
\* event, and it never gets one.
TransportFailureFatal ==
  upstream \in {"errored", "failed"} =>
    /\ signal = "error"
    /\ \A i \in 1..Len(emitted) : emitted[i].type # "content"

\* The stream failed while frames were still buffered and events had been
\* delivered.
TransportFailureFatalWitness ==
  /\ upstream = "errored"
  /\ signal = "error"
  /\ rawBuffer # <<>>
  /\ emitted # <<>>
  /\ \E x \in history : x.outcome = "deferred"

\* C13: Cancellation releases session state: once the consumer has detached,
\* no later handler call appends to the raw buffer, adds a dedup key or
\* extends the transcript.
CancellationReleases ==
  [][signal = "detached" =>
       /\ rawBuffer' = rawBuffer
       /\ processedTools' = processedTools
       /\ streamedContent' = streamedContent]_vars

\* A call running alone: the chunks of the given lengths fed one by one.
RECURSIVE FeedAlone(_, _, _)
FeedAlone(s, text, cuts) ==
  IF cuts = <<>> THEN s
  ELSE FeedAlone(OnData(s, SubSeq(text, 1, Head(cuts))),
                 SubSeq(text, Head(cuts) + 1, Len(text)), Tail(cuts))

\* The session of a call running alone with the second call's input, chunks
\* and final event.
PeerAlone ==
  LET fed == FeedAlone(InitialSession, peer.input, peer.cuts)
  IN IF peer.upstream = "ended" THEN OnEnd(fed)
     ELSE IF peer.upstream = "errored" THEN OnError(fed)
     ELSE fed

ToolKeysOf(events) ==
  {ToolKey(events[i].payload) : i \in {j \in 1..Len(events) : events[j].type = "tool"}}

EmittedDispatches(kind) ==
  {x \in history : x.kind = kind /\ x.outcome = "emitted"}

\* The event a dispatch recorded is the event of its frame of the input.
EventOfFrame(x) ==
  LET val == JSONParse(FrameBody(input, x.off)).val
  IN /\ x.seq \in 1..Len(emitted)
     /\ emitted[x.seq] = IF x.kind = "tool" THEN ToolEvent(val)
                         ELSE DeltaEvent(val.content)

\* C15: Order preservation within a kind: of two frames of the same kind
\* that both produced an event, the one that occurs first in the input has
\* its event first in the emitted sequence.
OrderWithinKind ==
  \A kind \in {"tool", "toly"} :
    \A x, y \in EmittedDispatches(kind) :
      /\ EventOfFrame(x)
      /\ x.off < y.off => x.seq < y.seq

\* Two Model frames with different deltas and a Tool frame produced events.
OrderWithinKindWitness ==
  /\ \E x, y \in EmittedDispatches("toly") :
       x.off < y.off /\ emitted[x.seq].text # emitted[y.seq].text
  /\ EmittedDispatches("tool") # {}

\* C16: Untagged content is discarded silently: only text that follows a tag
\* is ever handed to a processor and the buffer is only ever cut at a tag (or
\* emptied), so text in front of the first tag produces nothing; a stream without any tag produces no tool event, no delta and no
\* error, and completes with an empty content-complete event.
UntaggedDiscarded ==
  /\ \A x \in history : x.off \in TagOffsets(input)
  /\ base \in {0, Len(input)} \cup TagOffsets(input)
  /\ TagOffsets(input) = {} =>
       /\ \A i \in 1..Len(emitted) : emitted[i].type = "content"
       /\ upstream = "ended" => emitted = <<ContentEvent(<<>>)>> /\ signal = "complete"
  /\ signal = "error" => upstream \in {"errored", "failed"}
  /\ upstream = "ended" => emitted[Len(emitted)].type = "content"

\* A stream that held a decodable Model body and no tag has completed.
UntaggedDiscardedWitness ==
  /\ upstream = "ended"
  /\ TagOffsets(input) = {}
  /\ JSONParse(input).ok
  /\ emitted = <<ContentEvent(<<>>)>>

\* The tags of the input that have arrived completely.
ArrivedTags == {o \in TagOffsets(input) : o + IDENTIFIER_LENGTH <= delivered}

\* C17: During feed a frame with no following tag in the buffer is never
\* handed to a processor and is not consumed: every dispatch of a feed is of
\* a frame whose following tag had arrived, and while the stream is open the
\* last tag that arrived is still in the buffer with all that follows it,
\* undispatched; only the final pass dispatches it.
IncompleteFrameWaits ==
  /\ \A x \in history :
       ~x.isEnd => FrameEnd(input, x.off) + IDENTIFIER_LENGTH <= delivered
  /\ (upstream = "streaming" /\ ArrivedTags # {}) =>
       LET last == CHOOSE o \in ArrivedTags : \A n \in ArrivedTags : n <= o
       IN /\ ~\E x \in history : x.off = last
          /\ base <= last
          /\ SubstringFrom(rawBuffer, last - base) = SubSeq(input, last + 1, delivered)

\* The whole input has arrived, its last frame decodes, earlier frames were
\* dispatched, and the last frame still waits in the buffer.
IncompleteFrameWaitsWitness ==
  /\ upstream = "streaming"
  /\ delivered = Len(input)
  /\ history # {}
  /\ \E o \in TagOffsets(input) :
       /\ \A n \in TagOffsets(input) : n <= o
       /\ JSONParse(FrameBody(input, o)).ok
       /\ SubstringFrom(rawBuffer, o - base) = SubSeq(input, o + 1, Len(input))

\* Buffers the session scans: the buffer it keeps, as it is (under every
\* chunking, so also ending inside a tag) and with the rest of the input
\* appended as one chunk.
ScannedBuffers ==
  {rawBuffer \o SubSeq(input, delivered + 1, d) : d \in {delivered, Len(input)}}

\* The tag offsets of buf inside the region searched from position p: those
\* at or after p + IDENTIFIER_LENGTH.
SearchedTags(buf, p) == {o \in TagOffsets(buf) : o >= p + IDENTIFIER_LENGTH}

\* C18: Tag scanner result: for every buffer the session can scan and every
\* position in it, findNextMessageStart returns the smallest offset in the
\* searched region at which a tag of either kind begins, and Infinity exactly
\* when the region holds no tag.
ScannerResult ==
  \A buf \in ScannedBuffers :
    LET tags == TagOffsets(buf)
    IN \A p \in 0..Len(buf) :
         LET region == {o \in tags : o >= p + IDENTIFIER_LENGTH}
         IN findNextMessageStart(buf, p) =
              IF region = {} THEN Infinity ELSE Min(region)

\* A notice was dispatched and emitted whose tag is followed in the input by
\* a tag of each kind, the Tool tag first, and the stream has also been
\* scanned to its end (a last frame was dispatched by the final pass).
ScannerResultWitness ==
  /\ \E x \in history :
       /\ x.outcome = "emitted"
       /\ TagAt(input, x.off) = MESSAGE_TYPES.TOOL
       /\ \E a, b \in SearchedTags(input, x.off) :
            /\ a < b
            /\ TagAt(input, a) = MESSAGE_TYPES.TOOL
            /\ TagAt(input, b) = MESSAGE_TYPES.TOLY
  /\ \E y \in history : y.isEnd /\ SearchedTags(input, y.off) = {}

\* C19 as stated: the scan starts strictly after currentPos +
\* IDENTIFIER_LENGTH, so the tag that begins immediately after the tag at
\* currentPos (a frame with an empty body) is never the result.
ScannerSkipsAdjacentTag ==
  \A buf \in ScannedBuffers : \A p \in TagOffsets(buf) :
    findNextMessageStart(buf, p) # p + IDENTIFIER_LENGTH

\* C19: Tag scanner search start, as the code has it: the scan starts at
\* currentPos + IDENTIFIER_LENGTH inclusive. The result is never smaller than
\* that offset (the tag at currentPos itself is never matched again), and a
\* tag that begins exactly there, after an empty body, is the result.
ScannerSearchStart ==
  \A buf \in ScannedBuffers :
    LET tags == TagOffsets(buf)
    IN \A p \in 0..Len(buf) :
         /\ findNextMessageStart(buf, p) >= p + IDENTIFIER_LENGTH
         /\ p + IDENTIFIER_LENGTH \in tags =>
              findNextMessageStart(buf, p) = p + IDENTIFIER_LENGTH

\* A frame with an empty body that is directly followed by another tag was
\* handed to its processor with the empty text.
ScannerSearchStartWitness ==
  \E x \in history :
    /\ x.off + IDENTIFIER_LENGTH \in TagOffsets(input)
    /\ FrameBody(input, x.off) = <<>>
    /\ ~x.isEnd

\* The session as the next 'data' handler has it when its Tool pass starts:
\* the input up to offset d appended to the buffer.
BeforeToolPass(d) ==
  [Session EXCEPT !.rawBuffer = @ \o SubSeq(input, delivered + 1, d),
                  !.log = <<>>]

\* C20: Tool processor on decode failure mid-stream: in the Tool pass of any
\* feed, a dispatched Tool frame whose body does not decode is deferred:
\* processToolMessage returns false and leaves the events and the dedup set
\* as they were, the pass ends with that dispatch, and the buffer after the
\* pass still holds the frame from its tag on.
ToolDeferral ==
  upstream = "streaming" =>
    \A d \in (delivered + 1)..Len(input) :
      LET s0 == BeforeToolPass(d)
          t == processMessages(s0, MESSAGE_TYPES.TOOL, FALSE)
      IN \A i \in 1..Len(t.log) :
           LET x == t.log[i]
               content == FrameBody(s0.rawBuffer, x.off - s0.base)
               before == [t EXCEPT !.log = SubSeq(@, 1, i - 1)]
               r == processToolMessage(before, content, FALSE, x.off)
           IN ~JSONParse(Trim(content)).ok =>
                /\ x.outcome = "deferred"
                /\ i = Len(t.log)
                /\ ~r.processed
                /\ r.s.emitted = before.emitted
                /\ r.s.processedTools = before.processedTools
                /\ r.s = t
                /\ t.base <= x.off
                /\ SubstringFrom(t.rawBuffer, x.off - t.base)
                     = SubstringFrom(s0.rawBuffer, x.off - s0.base)

\* A feed deferred a notice whose body did not decode, and the notice is
\* still in the buffer after the feed.
ToolDeferralWitness ==
  /\ upstream = "streaming"
  /\ \E i \in 1..Len(passLog) :
       /\ passLog[i].kind = "tool" /\ passLog[i].outcome = "deferred"
       /\ base <= passLog[i].off
       /\ ~passLog[i].isEnd
       /\ ~JSONParse(Trim(FrameBody(input, passLog[i].off))).ok

\* C21: Model processor consumes every decoded body: every dispatch of a
\* Model frame whose body decodes as a JSON object ends as consumed (emitted
\* or filtered out), never deferred and never dropped as a failure; this
\* includes the object that passes the filter and has no data property.
DecodedModelBodyConsumed ==
  \A x \in history :
    (x.kind = "toly" /\ JSONParse(FrameBody(input, x.off)).ok) =>
      x.outcome \in {"emitted", "filtered"}

\* The decoded object has the streaming-token event kind, the generation
\* node, and a present, non-empty text delta.
AcceptedDelta(body) ==
  LET parsed == JSONParse(body)
  IN /\ parsed.ok
     /\ parsed.val.event = "on_chat_model_stream"
     /\ parsed.val.langgraph_node = "Toly"
     /\ parsed.val.hasData
     /\ parsed.val.content # <<>>

\* C22: Model filter: a dispatched Model frame emits a content-delta exactly
\* when its decoded object has the streaming-token event kind, the generation
\* node and a non-empty delta, the event carries that delta, and every
\* content-delta stems from such a dispatch; and processTolyMessage applied in
\* any reachable session to any body extends events and transcript by the
\* delta in that case and leaves both unchanged in every other.
ModelFilter ==
  /\ \A x \in history :
       x.kind = "toly" =>
         /\ x.outcome = "emitted" <=> AcceptedDelta(FrameBody(input, x.off))
         /\ x.outcome = "emitted" =>
              emitted[x.seq] =
                DeltaEvent(JSONParse(FrameBody(input, x.off)).val.content)
  /\ DeltaCount =
       Cardinality(EmittedDispatches("toly"))
  /\ \A body \in VariedTolyBodies : \A isEnd \in BOOLEAN :
       LET s0 == [Session EXCEPT !.log = <<>>]
           r == processTolyMessage(s0, body, isEnd, 0).s
           msgContent == JSONParse(body).val.content
       IN IF AcceptedDelta(body)
          THEN /\ r.streamedContent = s0.streamedContent \o msgContent
               /\ signal = "none" =>
                    r.emitted = Append(s0.emitted, DeltaEvent(msgContent))
          ELSE /\ r.streamedContent = s0.streamedContent
               /\ r.emitted = s0.emitted

\* A token of another node was decoded and filtered out, and a token of the
\* generation node was emitted, in one session.
ModelFilterWitness ==
  /\ \E x \in history :
       /\ x.kind = "toly" /\ x.outcome = "filtered"
       /\ JSONParse(FrameBody(input, x.off)).val.langgraph_node = "Tools"
  /\ \E y \in history : y.kind = "toly" /\ y.outcome = "emitted"
  /\ streamedContent = <<"H", "i">>

\* C23: Tool decode requires both fields: every tool event carries an object
\* that has tool_name and additional_kwargs, and no dedup key was built from
\* an object lacking them.
ToolDecodeNeedsFields ==
  /\ \A i \in 1..Len(emitted) :
       emitted[i].type = "tool" =>
         /\ emitted[i].payload.tool_name # Undefined
         /\ emitted[i].payload.additional_kwargs # Undefined
  /\ ToolKey(NoObject) \notin processedTools

\* The dispatches after which the frame counts as processed.
Processed == {x \in history : x.outcome # "deferred"}

\* C24: Raw buffer invariant: the buffer is a suffix of the text fed so far;
\* the tag and body of every frame that was dispatched and not deferred end
\* before that suffix begins; and no frame was processed by two dispatches.
RawBufferInvariant ==
  /\ \E k \in 0..delivered : rawBuffer = SubSeq(input, k + 1, delivered)
  /\ rawBuffer = SubSeq(input, base + 1, delivered)
  /\ \A x \in Processed : FrameEnd(input, x.off) <= base
  /\ \A x, y \in Processed : x.off = y.off => x = y

\* The stream is open, a frame has produced its event and is cut off, and
\* the buffer holds the text that arrived after it.
RawBufferInvariantWitness ==
  /\ upstream = "streaming"
  /\ \E x \in Processed : x.outcome = "emitted" /\ FrameEnd(input, x.off) = base
  /\ rawBuffer # <<>>
  /\ delivered < Len(input)

\* C25: Transcript invariant: before and after every step, while the consumer
\* is subscribed, the transcript equals the concatenation, in emission order,
\* of the content-delta texts emitted so far; and in every step, before or
\* after an unsubscribe, the transcript before the step is a prefix of the
\* transcript after it.
TranscriptInvariant ==
  [][/\ signal # "detached" => streamedContent = DeltaText(emitted)
     /\ signal' # "detached" => streamedContent' = DeltaText(emitted')
     /\ Len(streamedContent') >= Len(streamedContent)
     /\ SubSeq(streamedContent', 1, Len(streamedContent)) = streamedContent]_vars

\* Two deltas with different texts were emitted in two feeds and the
\* transcript holds both, in order.
TranscriptInvariantWitness ==
  /\ upstream = "streaming"
  /\ signal = "none"
  /\ streamedContent = <<"H", "i", "Y", "o">>
  /\ DeltaCount = 2
  /\ Cardinality({x \in history : x.kind = "toly" /\ x.outcome = "emitted"}) = 2
  /\ Len(passLog) = 1

\* The Model tags of the input.
TolyOffsets == {o \in TagOffsets(input) : TagAt(input, o) = MESSAGE_TYPES.TOLY}

\* C26: No duplicated output: each Model frame of the input was emitted by at
\* most one dispatch, every content-delta event is the event of one such
\* dispatch, and so there are never more content-delta events than Model
\* frames, under every chunking and through the final flush.
NoDuplicatedOutput ==
  /\ \A o \in TolyOffsets :
       Cardinality({x \in EmittedDispatches("toly") : x.off = o}) <= 1
  /\ \A x \in EmittedDispatches("toly") : x.off \in TolyOffsets /\ EventOfFrame(x)
  /\ DeltaCount = Cardinality(EmittedDispatches("toly"))
  /\ DeltaCount <= Cardinality(TolyOffsets)

\* Two Model frames with the same delta, the first emitted by a feed, the
\* second, which waited in the buffer, by the final flush; an earlier frame
\* was dispatched and deferred.
NoDuplicatedOutputWitness ==
  /\ upstream = "ended"
  /\ DeltaCount = 2
  /\ \E x, y \in EmittedDispatches("toly") :
       /\ x.off < y.off
       /\ ~x.isEnd /\ y.isEnd
       /\ FrameBody(input, x.off) = FrameBody(input, y.off)
  /\ \E z \in history : z.outcome = "deferred"

\* The dispatches of the final pass.
FinalDispatches == {x \in history : x.isEnd}

\* C27: End-of-stream sequence: while the stream is open there is no final
\* dispatch, no content-complete event and no completion; once it has ended
\* the final pass has run once (it dispatched each frame at most once and its
\* log is the last pass's), its events precede the one content-complete
\* event, which is the last event and carries the transcript, and the
\* subscriber is completed.
EndOfStreamSequence ==
  /\ upstream # "ended" =>
       /\ FinalDispatches = {}
       /\ ContentEvents = {}
       /\ signal # "complete"
  /\ upstream = "ended" =>
       /\ FinalDispatches = {passLog[i] : i \in 1..Len(passLog)}
       /\ \A x, y \in FinalDispatches : x.off = y.off => x = y
       /\ Cardinality(FinalDispatches) = Len(passLog)
       /\ ContentEvents = {Len(emitted)}
       /\ emitted[Len(emitted)] = ContentEvent(streamedContent)
       /\ \A x \in FinalDispatches :
            x.outcome = "emitted" => x.seq < Len(emitted) /\ EventOfFrame(x)
       /\ signal = "complete"

\* The final pass emitted a tool event and then a content-delta, and the
\* content-complete event follows them.
EndOfStreamSequenceWitness ==
  /\ upstream = "ended"
  /\ \E x, y \in FinalDispatches :
       /\ x.kind = "tool" /\ x.outcome = "emitted"
       /\ y.kind = "toly" /\ y.outcome = "emitted"
       /\ x.seq + 1 = y.seq
       /\ y.seq + 1 = Len(emitted)
  /\ emitted[Len(emitted)].type = "content"

\* The session's buffered state and what it has sent.
Buffered == <<rawBuffer, processedTools, streamedContent, emitted>>

QuotedTagOffset == IDENTIFIER_LENGTH + 2

StartsWithQuotingNotice ==
  /\ Len(input) >= QuotedTagOffset + IDENTIFIER_LENGTH + 1
  /\ TagAt(input, 0) = MESSAGE_TYPES.TOOL
  /\ JSONParse(SubSeq(input, IDENTIFIER_LENGTH + 1,
                      QuotedTagOffset + IDENTIFIER_LENGTH + 1)).ok
  /\ input[IDENTIFIER_LENGTH + 2] = "q"

\* C29: A tool notice whose body quotes a tag literal inside a string value
\* is one Tool frame: when the input starts with such a notice, the quoted
\* tag text is never dispatched as a frame, and the completed session's first
\* event is the tool event with the notice's full payload.
QuotedTagIsNoFrame ==
  StartsWithQuotingNotice =>
    /\ \A x \in history : x.off # QuotedTagOffset
    /\ upstream = "ended" =>
         emitted[1] =
           ToolEvent(JSONParse(SubSeq(input, IDENTIFIER_LENGTH + 1,
                                      QuotedTagOffset + IDENTIFIER_LENGTH + 1)).val)

\* C30: Termination of a drain pass: for every buffer the session can scan,
\* both tags and both values of isEnd, every iteration of the loop of
\* processMessages either leaves the loop or strictly shortens the buffer, so
\* the loop is left within as many iterations as the buffer has characters,
\* with the result of processMessages.
DrainPassTerminates ==
  \A buf \in ScannedBuffers :
    \A identifier \in {MESSAGE_TYPES.TOOL, MESSAGE_TYPES.TOLY} :
      \A isEnd \in BOOLEAN :
        LET s0 == [Session EXCEPT !.rawBuffer = buf, !.log = <<>>]
            run == Iterations(s0, identifier, isEnd, Len(buf) + 1)
        IN /\ run.shrank
           /\ run.done
           /\ run.s = processMessages(s0, identifier, isEnd)

\* A final pass over a buffer of two frames of one kind took two iterations
\* that went on, the first of a frame with an empty body, and emptied the
\* buffer.
DrainPassTerminatesWitness ==
  /\ upstream = "ended"
  /\ rawBuffer = <<>>
  /\ Len(passLog) = 2
  /\ passLog[1].kind = passLog[2].kind
  /\ FrameBody(input, passLog[1].off) = <<>>
  /\ passLog[1].off + IDENTIFIER_LENGTH = passLog[2].off

\* The frames in the buffer, by the input offsets of their tags.
BufferedFrames == {base + o : o \in TagOffsets(rawBuffer)}

\* C31: After the final flush the buffer holds no tag: in the step of the
\* 'end' event every frame that was in the buffer is dispatched by the final
\* pass and not deferred, the buffer after the step contains no tag, and it
\* is empty when the stream contained a tag.
FinalFlushConsumesAll ==
  [][upstream' = "ended" =>
       /\ \A o \in BufferedFrames :
            \E x \in history' : x.off = o /\ x.isEnd /\ x.outcome # "deferred"
       /\ TagOffsets(rawBuffer') = {}
       /\ TagOffsets(input) # {} => rawBuffer' = <<>>]_vars

\* The deferred frames that are still in the buffer.
Blocking == {x \in history : x.outcome = "deferred" /\ base <= x.off}

\* C32: Head-of-line blocking within a kind: while the stream is open and a
\* deferred frame is still in the buffer, no later frame of its kind has been
\* dispatched, so none has produced an event; a frame deferred by a pass is
\* the last dispatch of its kind in that pass; and a Model frame deferred by
\* the last feed is still the first Model frame of the buffer.
HeadOfLineBlocking ==
  upstream = "streaming" =>
    /\ \A x \in Blocking : \A y \in history : y.kind = x.kind => y.off <= x.off
    /\ \A i, j \in 1..Len(passLog) :
         (i < j /\ passLog[i].outcome = "deferred") =>
           passLog[j].kind # passLog[i].kind
    /\ \A i \in 1..Len(passLog) :
         (passLog[i].kind = "toly" /\ passLog[i].outcome = "deferred") =>
           /\ passLog[i] \in Blocking
           /\ base + IndexOf(rawBuffer, MESSAGE_TYPES.TOLY, 0) = passLog[i].off

\* A feed deferred an undecodable Model frame that is followed, in the
\* buffer, by a complete Model frame with a delta; that frame has not been
\* dispatched.
HeadOfLineBlockingWitness ==
  /\ upstream = "streaming"
  /\ \E i \in 1..Len(passLog) :
       /\ passLog[i].kind = "toly" /\ passLog[i].outcome = "deferred"
       /\ base <= passLog[i].off
       /\ \E o \in TolyOffsets :
            /\ o > passLog[i].off
            /\ AcceptedDelta(FrameBody(input, o))
            /\ FrameEnd(input, o) + IDENTIFIER_LENGTH <= delivered
            /\ ~\E x \in history : x.off = o

\* C33: Chunk decoding is fragmentation-invariant at byte level: as long as
\* nothing was cut off the buffer, the buffer after the chunks fed so far is
\* the decoding of their concatenation, wherever the chunk boundaries fall.
ChunkDecodingInvariant ==
  (upstream = "streaming" /\ base = 0) =>
    rawBuffer = Utf8Decode(SubSeq(input, 1, delivered))

====
